---- MODULE Spec2Model ----
(***************************************************************************)
(* Model of dnn_rs: the activation functions of src/nn/activation.rs and   *)
(* the SGD optimizer of src/optim/sgd.rs.                                  *)
(*                                                                         *)
(* A DMatrix<f64> is a record [nrows, ncols, data] whose data is a         *)
(* sequence of nrows rows of ncols entries.  Entries are small integers,   *)
(* which f64 represents and combines exactly.  The Sigmoid output is not   *)
(* an integer: it is kept in fixed point, in units of 1/Scale.             *)
(***************************************************************************)
EXTENDS Integers, Sequences, FiniteSets, TLC

\* ------------------------------------------------------------------ bounds
\* Largest column count of a matrix handed to an activation.
MaxCols == 2
\* Number of SGD.update calls explored.
MaxUpdates == 2
\* update is called only while every parameter and velocity entry is at most
\* this large in absolute value (keeps the arithmetic within 32-bit integers).
MaxMagnitude == 100

\* Row counts and entries of the matrices handed to an activation.
RowCounts == {0, 1}
Entries == {-4, 0, 3}

\* ---------------------------------------------------------------- matrices
zeros(r, c) == [nrows |-> r, ncols |-> c, data |-> [i \in 1..r |-> [j \in 1..c |-> 0]]]

shape(M) == <<M.nrows, M.ncols>>

is_empty(M) == M.nrows * M.ncols = 0

\* The set of r x c matrices with entries in S.
MatricesOver(r, c, S) ==
    {[nrows |-> r, ncols |-> c, data |-> d] : d \in [1..r -> [1..c -> S]]}

\* component_mul without the shape assertion: the left operand comes back.
component_mul_unchecked(L, R) ==
    IF shape(L) # shape(R)
    THEN [ok |-> TRUE, val |-> L]
    ELSE [ok |-> TRUE,
          val |-> [nrows |-> L.nrows, ncols |-> L.ncols,
                   data |-> [i \in 1..L.nrows |->
                               [j \in 1..L.ncols |-> L.data[i][j] * R.data[i][j]]]]]

\* DMatrix::component_mul: asserts equal shapes, then multiplies entrywise.
\* A failed assertion is a panic: ok = FALSE and no value.
component_mul(L, R) ==
    IF shape(L) # shape(R)
    THEN [ok |-> FALSE, val |-> zeros(0, 0)]
    ELSE [ok |-> TRUE,
          val |-> [nrows |-> L.nrows, ncols |-> L.ncols,
                   data |-> [i \in 1..L.nrows |->
                               [j \in 1..L.ncols |-> L.data[i][j] * R.data[i][j]]]]]

\* scalar * matrix
scal(c, M) ==
    [nrows |-> M.nrows, ncols |-> M.ncols,
     data |-> [i \in 1..M.nrows |-> [j \in 1..M.ncols |-> c * M.data[i][j]]]]

\* matrix + matrix and matrix - matrix (also +=, -=): nalgebra asserts equal
\* shapes; a failed assertion is a panic (ok = FALSE).
madd(L, R) ==
    IF shape(L) # shape(R)
    THEN [ok |-> FALSE, val |-> L]
    ELSE [ok |-> TRUE,
          val |-> [nrows |-> L.nrows, ncols |-> L.ncols,
                   data |-> [i \in 1..L.nrows |->
                               [j \in 1..L.ncols |-> L.data[i][j] + R.data[i][j]]]]]

msub(L, R) == madd(L, scal(-1, R))

RECURSIVE dot(_, _, _, _, _)
\* sum over k' in 1..k of L[i][k'] * R[k'][j]
dot(L, R, i, j, k) ==
    IF k = 0 THEN 0 ELSE dot(L, R, i, j, k - 1) + L.data[i][k] * R.data[k][j]

\* matrix product; requires L.ncols = R.nrows (checked by the callers).
matmul(L, R) ==
    [nrows |-> L.nrows, ncols |-> R.ncols,
     data |-> [i \in 1..L.nrows |-> [j \in 1..R.ncols |-> dot(L, R, i, j, L.ncols)]]]

transpose(M) ==
    [nrows |-> M.ncols, ncols |-> M.nrows,
     data |-> [i \in 1..M.ncols |-> [j \in 1..M.nrows |-> M.data[j][i]]]]

RECURSIVE rowtotal(_, _, _)
rowtotal(M, i, j) == IF j = 0 THEN 0 ELSE rowtotal(M, i, j - 1) + M.data[i][j]

\* sum over the batch (column) dimension, keeping the rows: an nrows x 1 matrix
row_sum(M) ==
    [nrows |-> M.nrows, ncols |-> 1,
     data |-> [i \in 1..M.nrows |-> [j \in 1..1 |-> rowtotal(M, i, M.ncols)]]]

\* Z + b with the column b broadcast across the batch
add_bias(Z, b) ==
    [nrows |-> Z.nrows, ncols |-> Z.ncols,
     data |-> [i \in 1..Z.nrows |-> [j \in 1..Z.ncols |-> Z.data[i][j] + b.data[i][1]]]]

\* a matrix written as its rows
mat(rows) == [nrows |-> Len(rows), ncols |-> Len(rows[1]), data |-> rows]

\* ------------------------------------------------------------- fixed point
Scale == 10 ^ 3

\* std::f64::consts::E in units of 1/Scale.
E == 2718

RECURSIVE powi(_)
\* E^n for a natural n, in units of 1/Scale.
powi(n) == IF n = 0 THEN Scale ELSE (powi(n - 1) * E) \div Scale

\* consts::E.powf(x) for an integer x, in units of 1/Scale.
powf(x) == IF x >= 0 THEN powi(x) ELSE (Scale * Scale) \div powi(0 - x)

\* ---------------------------------------------------------------- closures
\* |x| x.max(0.0)
relu_f(x) == IF x > 0 THEN x ELSE 0

\* A ReLU derivative that is 1 at zero as well.
relu_dAdZ_geq(x) == IF x >= 0 THEN 1 ELSE 0

\* |x| if x > 0.0 { 1.0 } else { 0.0 }
relu_dAdZ(x) == IF x > 0 THEN 1 ELSE 0

\* |x| 1.0/(1.0 + consts::E.powf(x)), result in units of 1/Scale.
sigmoid_f(x) == (Scale * Scale) \div (Scale + powf(x))

\* |x| x * (1.0 - x), argument and result in units of 1/Scale.
sigmoid_dAdZ(a) == (a * (Scale - a)) \div Scale

\* DMatrix::map with each of the closures
map_relu_f(M) ==
    [nrows |-> M.nrows, ncols |-> M.ncols,
     data |-> [i \in 1..M.nrows |-> [j \in 1..M.ncols |-> relu_f(M.data[i][j])]]]

map_relu_dAdZ(M) ==
    [nrows |-> M.nrows, ncols |-> M.ncols,
     data |-> [i \in 1..M.nrows |-> [j \in 1..M.ncols |-> relu_dAdZ(M.data[i][j])]]]

map_sigmoid_f(M) ==
    [nrows |-> M.nrows, ncols |-> M.ncols,
     data |-> [i \in 1..M.nrows |-> [j \in 1..M.ncols |-> sigmoid_f(M.data[i][j])]]]

map_sigmoid_dAdZ(M) ==
    [nrows |-> M.nrows, ncols |-> M.ncols,
     data |-> [i \in 1..M.nrows |-> [j \in 1..M.ncols |-> sigmoid_dAdZ(M.data[i][j])]]]

\* ------------------------------------------------------- activation methods
\* forward returns the new stored A (which is also the returned clone).
Identity_forward_A(Z) == Z

ReLU_forward_A(Z) == map_relu_f(Z)

Sigmoid_forward_A(Z) == map_sigmoid_f(Z)

\* An Identity backward that multiplies by the stored A.
Identity_backward_ret_timesA(Astored, dLdA) == component_mul(dLdA, Astored)

\* backward returns [ok, val]: ok = FALSE is a panic.
Identity_backward_ret(Astored, dLdA) == [ok |-> TRUE, val |-> dLdA]

\* A ReLU backward without the assertion that A is not empty.
ReLU_backward_ret_noAssert(Astored, dLdA) ==
    component_mul(dLdA, map_relu_dAdZ(Astored))

ReLU_backward_ret(Astored, dLdA) ==
    IF is_empty(Astored)
    THEN [ok |-> FALSE, val |-> zeros(0, 0)]
    ELSE component_mul(dLdA, map_relu_dAdZ(Astored))

Sigmoid_backward_ret(Astored, dLdA) ==
    component_mul(dLdA, map_sigmoid_dAdZ(Astored))

\* --------------------------------------------- NeuralNetwork (nn::model)
\* A layer: parameters W, b, the cached input X, its activation's stored
\* output A, and the gradients dLdW, dLdb.  The activation is Identity.
Layer_new(W0, b0) ==
    [W |-> W0, b |-> b0, X |-> zeros(0, 0), A |-> zeros(0, 0),
     dLdW |-> zeros(W0.nrows, W0.ncols), dLdb |-> zeros(b0.nrows, b0.ncols)]

\* Layer.forward: stores X, Z = W.X + b, then the activation's forward.
Layer_forward(l, X) ==
    IF X.nrows # l.W.ncols
    THEN [ok |-> FALSE, layer |-> [l EXCEPT !.X = X], out |-> zeros(0, 0)]
    ELSE LET Z == add_bias(matmul(l.W, X), l.b)
             Aout == Identity_forward_A(Z)
         IN  [ok |-> TRUE, layer |-> [l EXCEPT !.X = X, !.A = Aout], out |-> Aout]

\* Layer.backward: dLdZ from the activation, dLdW = dLdZ.X^t,
\* dLdb = rowwise-sum(dLdZ), returns dLdX = W^t.dLdZ.
Layer_backward(l, dLdA) ==
    LET dLdZ == Identity_backward_ret(l.A, dLdA).val
    IN  [layer |-> [l EXCEPT !.dLdW = matmul(dLdZ, transpose(l.X)),
                             !.dLdb = row_sum(dLdZ)],
         dLdX |-> matmul(transpose(l.W), dLdZ)]

RECURSIVE model_forward_from(_, _, _)
\* NeuralNetwork.forward from layer k on: each layer's output is the next
\* layer's input; a layer's panic ends the pass.
model_forward_from(ls, k, X) ==
    IF k > Len(ls)
    THEN [ok |-> TRUE, layers |-> ls, out |-> X]
    ELSE LET r == Layer_forward(ls[k], X)
         IN  IF r.ok
             THEN model_forward_from([ls EXCEPT ![k] = r.layer], k + 1, r.out)
             ELSE [ok |-> FALSE, layers |-> [ls EXCEPT ![k] = r.layer],
                   out |-> zeros(0, 0)]

model_forward(ls, X) == model_forward_from(ls, 1, X)

\* loss.forward(prediction, target): stores both; the shapes must match.
loss_forward(P, Y) ==
    IF shape(P) # shape(Y)
    THEN [ok |-> FALSE, loss |-> [P |-> zeros(0, 0), Y |-> zeros(0, 0)]]
    ELSE [ok |-> TRUE, loss |-> [P |-> P, Y |-> Y]]

\* loss.backward(): dLoss/dPrediction, here prediction - target.
loss_backward(loss) == msub(loss.P, loss.Y).val

RECURSIVE model_backward_from(_, _, _)
\* NeuralNetwork.backward from layer k down to layer 1.
model_backward_from(ls, k, g) ==
    IF k = 0
    THEN [layers |-> ls, dLdA |-> g]
    ELSE LET r == Layer_backward(ls[k], g)
         IN  model_backward_from([ls EXCEPT ![k] = r.layer], k - 1, r.dLdX)

model_backward(m) == model_backward_from(m.layers, Len(m.layers), loss_backward(m.loss))

\* ---------------------------------------------------------------- SGD
\* SGD::new: one zero velocity per layer, shaped like W and b.
SGD_new_v_W(m) ==
    [k \in 1..Len(m.layers) |-> zeros(m.layers[k].W.nrows, m.layers[k].W.ncols)]

SGD_new_v_b(m) ==
    [k \in 1..Len(m.layers) |-> zeros(m.layers[k].b.nrows, m.layers[k].b.ncols)]

\* update with the loop over the layers as its first statement.
after_layersFirst(p) ==
    CASE p = "entry" -> "layers"
      [] p = "layers" -> "forward"
      [] p = "forward" -> "loss"
      [] p = "loss" -> "backward"
      [] p = "backward" -> "returned"

\* update with the loop over the layers before model.backward().
after_layersBeforeBackward(p) ==
    CASE p = "entry" -> "forward"
      [] p = "forward" -> "loss"
      [] p = "loss" -> "layers"
      [] p = "layers" -> "backward"
      [] p = "backward" -> "returned"

\* The statement that follows statement p in the body of SGD::update:
\* model.forward, loss.forward, model.backward, the loop over the layers.
after(p) ==
    CASE p = "entry" -> "forward"
      [] p = "forward" -> "loss"
      [] p = "loss" -> "backward"
      [] p = "backward" -> "layers"
      [] p = "layers" -> "returned"

\* A mu == 0 branch that accumulates the gradient into the velocities too.
sgd_plain_touchesV(l, vW, vb, lr_) ==
    LET W1 == msub(l.W, scal(lr_, l.dLdW))
        b1 == msub(l.b, scal(lr_, l.dLdb))
    IN  [ok |-> W1.ok /\ b1.ok, layer |-> [l EXCEPT !.W = W1.val, !.b = b1.val],
         vW |-> madd(vW, l.dLdW).val, vb |-> madd(vb, l.dLdb).val,
         wrote |-> <<"v_W", "v_b", "W", "b">>]

\* The mu == 0 branch of the loop body for one layer.  Each -= asserts equal
\* shapes; what was assigned before a panic stays assigned.
sgd_plain(l, vW, vb, lr_) ==
    LET W1 == msub(l.W, scal(lr_, l.dLdW))
        b1 == msub(l.b, scal(lr_, l.dLdb))
    IN  IF ~W1.ok
        THEN [ok |-> FALSE, layer |-> l, vW |-> vW, vb |-> vb, wrote |-> <<>>]
        ELSE IF ~b1.ok
        THEN [ok |-> FALSE, layer |-> [l EXCEPT !.W = W1.val], vW |-> vW, vb |-> vb,
              wrote |-> <<"W">>]
        ELSE [ok |-> TRUE, layer |-> [l EXCEPT !.W = W1.val, !.b = b1.val],
              vW |-> vW, vb |-> vb, wrote |-> <<"W", "b">>]

\* A momentum branch in the exponential-moving-average form:
\* v <- mu*v + (1 - mu)*dLdW.
sgd_momentum_ema(l, vW, vb, lr_, mu_) ==
    LET vW1 == madd(scal(mu_, vW), scal(1 - mu_, l.dLdW))
        vb1 == madd(scal(mu_, vb), scal(1 - mu_, l.dLdb))
        W1 == msub(l.W, scal(lr_, vW1.val))
        b1 == msub(l.b, scal(lr_, vb1.val))
    IN  [ok |-> vW1.ok /\ vb1.ok /\ W1.ok /\ b1.ok,
         layer |-> [l EXCEPT !.W = W1.val, !.b = b1.val],
         vW |-> vW1.val, vb |-> vb1.val, wrote |-> <<"v_W", "v_b", "W", "b">>]

\* The mu != 0 branch of the loop body for one layer.
sgd_momentum(l, vW, vb, lr_, mu_) ==
    LET vW1 == madd(scal(mu_, vW), l.dLdW)
        vb1 == madd(scal(mu_, vb), l.dLdb)
        W1 == msub(l.W, scal(lr_, vW1.val))
        b1 == msub(l.b, scal(lr_, vb1.val))
    IN  IF ~vW1.ok
        THEN [ok |-> FALSE, layer |-> l, vW |-> vW, vb |-> vb, wrote |-> <<>>]
        ELSE IF ~vb1.ok
        THEN [ok |-> FALSE, layer |-> l, vW |-> vW1.val, vb |-> vb, wrote |-> <<"v_W">>]
        ELSE IF ~W1.ok
        THEN [ok |-> FALSE, layer |-> l, vW |-> vW1.val, vb |-> vb1.val,
              wrote |-> <<"v_W", "v_b">>]
        ELSE IF ~b1.ok
        THEN [ok |-> FALSE, layer |-> [l EXCEPT !.W = W1.val], vW |-> vW1.val,
              vb |-> vb1.val, wrote |-> <<"v_W", "v_b", "W">>]
        ELSE [ok |-> TRUE, layer |-> [l EXCEPT !.W = W1.val, !.b = b1.val],
              vW |-> vW1.val, vb |-> vb1.val, wrote |-> <<"v_W", "v_b", "W", "b">>]

\* The loop body for one layer.
sgd_layer(l, vW, vb, lr_, mu_) ==
    IF mu_ = 0 THEN sgd_plain(l, vW, vb, lr_) ELSE sgd_momentum(l, vW, vb, lr_, mu_)

\* ------------------------------------------------------------------- state
VARIABLES
    kind,        \* which variant the activation instance is
    A,           \* the instance's field A
    ret,         \* the last call on the instance: [op, ok, arg, val]
    fwdCalled,   \* history: forward has been called since construction
    lastZ,       \* history: argument of the most recent forward
    model,       \* SGD.model: [layers, loss]
    lr,          \* SGD.lr
    mu,          \* SGD.mu
    v_W,         \* SGD.v_W
    v_b,         \* SGD.v_b
    pc,          \* the statement of SGD::update about to run, or idle/returned/panicked
    i,           \* the loop index of SGD::update
    x,           \* argument x of the running update
    y,           \* argument y of the running update
    Z,           \* local Z of the running update
    pre,         \* history: W, b, v_W, v_b of every layer when update was entered
    log,         \* history: what the running update has done so far, in order
    nCalls,      \* history: number of update calls made
    gradHist     \* history: the gradients of every update that returned

actVars == <<kind, A, ret, fwdCalled, lastZ>>

sgdVars == <<model, lr, mu, v_W, v_b, pc, i, x, y, Z, pre, log, nCalls, gradHist>>

vars == <<kind, A, ret, fwdCalled, lastZ,
          model, lr, mu, v_W, v_b, pc, i, x, y, Z, pre, log, nCalls, gradHist>>

\* -------------------------------------------------- the activation instance
Kinds == {"Identity", "ReLU", "Sigmoid"}

InputMatrices ==
    UNION {MatricesOver(r, c, Entries) : r \in RowCounts, c \in 0..MaxCols}

NoCall == [op |-> "none", ok |-> TRUE, arg |-> zeros(0, 0), val |-> zeros(0, 0)]

\* Identity::new, ReLU::new, Sigmoid::new
ActNew ==
    /\ A = zeros(0, 0)
    /\ ret = NoCall
    /\ fwdCalled = FALSE
    /\ lastZ = zeros(0, 0)

\* pub fn forward(&mut self, Z) of Identity
Identity_forward ==
    \E Zin \in InputMatrices :
        /\ kind = "Identity"
        /\ A' = Identity_forward_A(Zin)
        /\ ret' = [op |-> "forward", ok |-> TRUE, arg |-> Zin, val |-> A']
        /\ fwdCalled' = TRUE
        /\ lastZ' = Zin
        /\ UNCHANGED kind
        /\ UNCHANGED sgdVars

\* pub fn backward(&self, dLdA) of Identity
Identity_backward ==
    \E dLdA \in InputMatrices :
        /\ kind = "Identity"
        /\ ret' = [op |-> "backward", ok |-> Identity_backward_ret(A, dLdA).ok,
                   arg |-> dLdA, val |-> Identity_backward_ret(A, dLdA).val]
        /\ UNCHANGED <<kind, A, fwdCalled, lastZ>>
        /\ UNCHANGED sgdVars

\* pub fn forward(&mut self, Z) of ReLU
ReLU_forward ==
    \E Zin \in InputMatrices :
        /\ kind = "ReLU"
        /\ A' = ReLU_forward_A(Zin)
        /\ ret' = [op |-> "forward", ok |-> TRUE, arg |-> Zin, val |-> A']
        /\ fwdCalled' = TRUE
        /\ lastZ' = Zin
        /\ UNCHANGED kind
        /\ UNCHANGED sgdVars

\* A backward of ReLU that keeps the mask it computed in self.A.
ReLU_backward_keepsMask ==
    \E dLdA \in InputMatrices :
        /\ kind = "ReLU"
        /\ ret' = [op |-> "backward", ok |-> ReLU_backward_ret(A, dLdA).ok,
                   arg |-> dLdA, val |-> ReLU_backward_ret(A, dLdA).val]
        /\ A' = map_relu_dAdZ(A)
        /\ UNCHANGED <<kind, fwdCalled, lastZ>>
        /\ UNCHANGED sgdVars

\* pub fn backward(&self, dLdA) of ReLU
ReLU_backward ==
    \E dLdA \in InputMatrices :
        /\ kind = "ReLU"
        /\ ret' = [op |-> "backward", ok |-> ReLU_backward_ret(A, dLdA).ok,
                   arg |-> dLdA, val |-> ReLU_backward_ret(A, dLdA).val]
        /\ UNCHANGED <<kind, A, fwdCalled, lastZ>>
        /\ UNCHANGED sgdVars

\* pub fn forward(&mut self, Z) of Sigmoid
Sigmoid_forward ==
    \E Zin \in InputMatrices :
        /\ kind = "Sigmoid"
        /\ A' = Sigmoid_forward_A(Zin)
        /\ ret' = [op |-> "forward", ok |-> TRUE, arg |-> Zin, val |-> A']
        /\ fwdCalled' = TRUE
        /\ lastZ' = Zin
        /\ UNCHANGED kind
        /\ UNCHANGED sgdVars

\* pub fn backward(&self, dLdA) of Sigmoid
Sigmoid_backward ==
    \E dLdA \in InputMatrices :
        /\ kind = "Sigmoid"
        /\ ret' = [op |-> "backward", ok |-> Sigmoid_backward_ret(A, dLdA).ok,
                   arg |-> dLdA, val |-> Sigmoid_backward_ret(A, dLdA).val]
        /\ UNCHANGED <<kind, A, fwdCalled, lastZ>>
        /\ UNCHANGED sgdVars

\* ------------------------------------------------------------ the optimizer
\* The networks an optimizer is built on: two layers, 2 -> 1 -> 1.
Networks ==
    {[layers |-> <<Layer_new(mat(<<w1>>), mat(<<<<0>>>>)),
                   Layer_new(mat(<<<<w2>>>>), mat(<<<<1>>>>))>>,
      loss |-> [P |-> zeros(0, 0), Y |-> zeros(0, 0)]]
        : w1 \in {<<1, 0>>, <<1, -1>>}, w2 \in {1}}

LearningRates == {1, 2}

Momenta == {0, 1, 2}

\* The batches handed to update: well-shaped ones, and one of a wrong shape.
BatchX == MatricesOver(2, 1, {0, 1}) \cup {mat(<<<<1>>>>)}

BatchY == MatricesOver(1, 1, {0, 2}) \cup {mat(<<<<0>>, <<0>>>>)}

Snapshot(m, vW, vb) ==
    [W |-> [k \in 1..Len(m.layers) |-> m.layers[k].W],
     b |-> [k \in 1..Len(m.layers) |-> m.layers[k].b],
     v_W |-> vW, v_b |-> vb]

Grads(m) ==
    [k \in 1..Len(m.layers) |-> [dLdW |-> m.layers[k].dLdW, dLdb |-> m.layers[k].dLdb]]

SgdNew ==
    /\ model \in Networks
    /\ lr \in LearningRates
    /\ mu \in Momenta
    /\ v_W = SGD_new_v_W(model)
    /\ v_b = SGD_new_v_b(model)
    /\ pc = "idle"
    /\ i = 1
    /\ x = zeros(0, 0)
    /\ y = zeros(0, 0)
    /\ Z = zeros(0, 0)
    /\ pre = Snapshot(model, v_W, v_b)
    /\ log = <<>>
    /\ nCalls = 0
    /\ gradHist = <<>>

\* Control passes to statement p (or the call returns or panics) with the
\* model left as m.
Goto(p, m) ==
    /\ pc' = p
    /\ model' = m
    /\ gradHist' = IF p = "returned" THEN Append(gradHist, Grads(m)) ELSE gradHist

Small(M) ==
    \A r \in 1..M.nrows : \A c \in 1..M.ncols :
        /\ M.data[r][c] <= MaxMagnitude
        /\ M.data[r][c] >= 0 - MaxMagnitude

\* A caller calls update(x, y).
update ==
    /\ pc \in {"idle", "returned", "panicked"}
    /\ nCalls < MaxUpdates
    /\ \A k \in 1..Len(model.layers) :
          /\ Small(model.layers[k].W) /\ Small(model.layers[k].b)
          /\ Small(v_W[k]) /\ Small(v_b[k])
    /\ x' \in BatchX
    /\ y' \in BatchY
    /\ Z' = zeros(0, 0)
    /\ i' = 1
    /\ pre' = Snapshot(model, v_W, v_b)
    /\ log' = <<>>
    /\ nCalls' = nCalls + 1
    /\ Goto(after("entry"), model)
    /\ UNCHANGED <<lr, mu, v_W, v_b>>
    /\ UNCHANGED actVars

\* let Z = self.model.forward(&x);
update_forward ==
    /\ pc = "forward"
    /\ LET r == model_forward(model.layers, x)
       IN  /\ Z' = r.out
           /\ Goto(IF r.ok THEN after("forward") ELSE "panicked",
                   [model EXCEPT !.layers = r.layers])
    /\ log' = Append(log, <<"model.forward", 0>>)
    /\ UNCHANGED <<lr, mu, v_W, v_b, i, x, y, pre, nCalls>>
    /\ UNCHANGED actVars

\* let _ = self.model.loss.forward(&Z, &y);
update_loss ==
    /\ pc = "loss"
    /\ LET r == loss_forward(Z, y)
       IN  Goto(IF r.ok THEN after("loss") ELSE "panicked",
                IF r.ok THEN [model EXCEPT !.loss = r.loss] ELSE model)
    /\ log' = Append(log, <<"loss.forward", 0>>)
    /\ UNCHANGED <<lr, mu, v_W, v_b, i, x, y, Z, pre, nCalls>>
    /\ UNCHANGED actVars

\* let dLdA = self.model.backward();
update_backward ==
    /\ pc = "backward"
    /\ Goto(after("backward"), [model EXCEPT !.layers = model_backward(model).layers])
    /\ log' = Append(log, <<"model.backward", 0>>)
    /\ UNCHANGED <<lr, mu, v_W, v_b, i, x, y, Z, pre, nCalls>>
    /\ UNCHANGED actVars

\* One iteration of for i in 0..self.model.layers.len() { ... }
update_layers ==
    /\ pc = "layers"
    /\ i <= Len(model.layers)
    /\ LET r == sgd_layer(model.layers[i], v_W[i], v_b[i], lr, mu)
       IN  /\ v_W' = [v_W EXCEPT ![i] = r.vW]
           /\ v_b' = [v_b EXCEPT ![i] = r.vb]
           /\ log' = log \o [k \in 1..Len(r.wrote) |-> <<r.wrote[k], i>>]
           /\ Goto(IF ~r.ok THEN "panicked"
                   ELSE IF i = Len(model.layers) THEN after("layers") ELSE "layers",
                   [model EXCEPT !.layers[i] = r.layer])
    /\ i' = i + 1
    /\ UNCHANGED <<lr, mu, x, y, Z, pre, nCalls>>
    /\ UNCHANGED actVars

\* ---------------------------------------------------------- specifications
InitAct ==
    /\ kind \in Kinds
    /\ ActNew
    /\ SgdNew
    /\ model = CHOOSE m \in Networks : TRUE
    /\ lr = 1
    /\ mu = 0

NextAct ==
    \/ Identity_forward
    \/ Identity_backward
    \/ ReLU_forward
    \/ ReLU_backward
    \/ Sigmoid_forward
    \/ Sigmoid_backward

SpecAct == InitAct /\ [][NextAct]_vars

InitSGD ==
    /\ kind = "Identity"
    /\ ActNew
    /\ SgdNew

NextSGD ==
    \/ update
    \/ update_forward
    \/ update_loss
    \/ update_backward
    \/ update_layers

SpecSGD == InitSGD /\ [][NextSGD]_vars

\* ------------------------------------------------- claims: activations
IsBackward == ret.op = "backward"

IsForward == ret.op = "forward"

\* C1 (as stated): for every variant, a backward on an instance whose
\* forward was never called fails instead of returning a gradient.
C1_BackwardBeforeForwardFails ==
    (IsBackward /\ ~fwdCalled) => ~ret.ok

\* C1 (amended): on an instance whose forward was never called, ReLU's
\* backward always fails; Sigmoid's backward fails exactly when dLdA is not
\* 0 x 0 (and returns the 0 x 0 matrix when it is); Identity's backward does
\* not need a forward and returns dLdA.
C1_BackwardBeforeForward ==
    (IsBackward /\ ~fwdCalled) =>
        /\ kind = "ReLU" => ~ret.ok
        /\ kind = "Sigmoid" =>
              /\ ret.ok <=> shape(ret.arg) = <<0, 0>>
              /\ ret.ok => ret.val = zeros(0, 0)
        /\ kind = "Identity" => ret.ok /\ ret.val = ret.arg

C1_Witness ==
    /\ IsBackward /\ ~fwdCalled
    /\ kind = "ReLU"
    /\ shape(ret.arg) = <<0, 0>>
    /\ ~ret.ok

\* C8 (as stated): for every variant, a backward after a forward fails
\* whenever the shape of dLdA differs from the shape of the stored A.
C8_ShapeMismatchFails ==
    (IsBackward /\ fwdCalled /\ shape(ret.arg) # shape(A)) => ~ret.ok

\* C8 (amended): after a forward, the backward of ReLU and of Sigmoid fails
\* whenever the shape of dLdA differs from the shape of the stored A;
\* Identity's backward does not look at A and returns dLdA.
C8_ShapeMismatch ==
    (IsBackward /\ fwdCalled /\ shape(ret.arg) # shape(A)) =>
        /\ kind \in {"ReLU", "Sigmoid"} => ~ret.ok
        /\ kind = "Identity" => ret.ok /\ ret.val = ret.arg

C8_Witness ==
    /\ IsBackward /\ fwdCalled
    /\ kind = "Sigmoid"
    /\ shape(A) = <<1, 2>>
    /\ shape(ret.arg) = <<1, 1>>
    /\ ~ret.ok

\* C4: ReLU's forward returns max(0, Z[i,j]) in every entry; a backward that
\* follows a forward (with dLdA shaped like the stored, non-empty A) returns
\* dLdA[i,j] where A[i,j] > 0 and 0 elsewhere, also where Z[i,j] = 0.
C4_ReLU ==
    kind = "ReLU" =>
        /\ IsForward =>
              /\ shape(ret.val) = shape(ret.arg)
              /\ \A r \in 1..ret.arg.nrows : \A c \in 1..ret.arg.ncols :
                    /\ ret.val.data[r][c] >= 0
                    /\ ret.val.data[r][c] >= ret.arg.data[r][c]
                    /\ ret.val.data[r][c] \in {0, ret.arg.data[r][c]}
        /\ (IsBackward /\ fwdCalled) =>
              /\ (shape(ret.arg) = shape(A) /\ ~is_empty(A)) => ret.ok
              /\ ret.ok =>
                    /\ shape(ret.val) = shape(ret.arg)
                    /\ \A r \in 1..A.nrows : \A c \in 1..A.ncols :
                          /\ A.data[r][c] > 0 => ret.val.data[r][c] = ret.arg.data[r][c]
                          /\ A.data[r][c] <= 0 => ret.val.data[r][c] = 0
                          /\ lastZ.data[r][c] = 0 => ret.val.data[r][c] = 0

C4_Witness ==
    /\ kind = "ReLU" /\ IsBackward /\ fwdCalled /\ ret.ok
    /\ lastZ = mat(<<<<0, 3>>>>)
    /\ ret.arg = mat(<<<<3, -4>>>>)
    /\ ret.val = mat(<<<<0, -4>>>>)

\* C5: Identity's forward returns a matrix equal to Z and its backward a
\* matrix equal to dLdA, exactly, for every argument.
C5_Identity ==
    kind = "Identity" =>
        /\ IsForward => ret.ok /\ ret.val = ret.arg
        /\ IsBackward => ret.ok /\ ret.val = ret.arg

C5_Witness ==
    /\ kind = "Identity" /\ IsBackward /\ fwdCalled
    /\ ret.arg = mat(<<<<3, -4>>>>)
    /\ A = mat(<<<<0>>>>)
    /\ ret.val = ret.arg

\* C6: Sigmoid's forward computes the canonical sigmoid 1/(1+e^(-z)) in
\* every entry: 0.5 at z = 0, below 0.5 for z < 0, above 0.5 for z > 0.
C6_SigmoidCanonical ==
    (kind = "Sigmoid" /\ IsForward) =>
        \A r \in 1..ret.arg.nrows : \A c \in 1..ret.arg.ncols :
            LET z == ret.arg.data[r][c]
                a == ret.val.data[r][c]
            IN  /\ a = (Scale * Scale) \div (Scale + powf(0 - z))
                /\ z = 0 => 2 * a = Scale
                /\ z < 0 => 2 * a < Scale
                /\ z > 0 => 2 * a > Scale

\* The function f of the variant, entry by entry.
VariantF(k, z) ==
    CASE k = "ReLU" -> IF z > 0 THEN z ELSE 0
      [] k = "Sigmoid" -> (Scale * Scale) \div (Scale + powf(z))
      [] k = "Identity" -> z

\* What C10 requires of one step of a ReLU or Sigmoid instance.
C10_Step ==
    kind \in {"ReLU", "Sigmoid"} =>
        /\ ret'.op = "backward" => A' = A
        /\ fwdCalled' =>
              /\ shape(A') = shape(lastZ')
              /\ \A r \in 1..A'.nrows : \A c \in 1..A'.ncols :
                    A'.data[r][c] = VariantF(kind, lastZ'.data[r][c])
        /\ (ret.op = "backward" /\ ret'.op = "backward" /\ ret'.arg = ret.arg) =>
              (ret'.ok = ret.ok /\ ret'.val = ret.val)

\* C10: the stored A of a ReLU or Sigmoid is written only by forward: it
\* equals f of the argument of the most recent forward, a backward never
\* changes it, and a backward repeated with the same dLdA and no forward in
\* between returns the same result.
C10_AWrittenOnlyByForward == [][C10_Step]_vars

C10_Witness ==
    /\ kind = "ReLU" /\ IsBackward /\ fwdCalled /\ ret.ok
    /\ lastZ = mat(<<<<3, -4>>>>)
    /\ A = mat(<<<<3, 0>>>>)
    /\ ret.arg = mat(<<<<3, 3>>>>)

\* --------------------------------------------------- claims: optimizer
NLayers == Len(model.layers)

AllZero(M) == \A r \in 1..M.nrows : \A c \in 1..M.ncols : M.data[r][c] = 0

\* C2: with mu != 0 the velocities start at zero; every update that returns
\* has set, for each layer, v_W <- mu*v_W + dLdW and then W <- W - lr*v_W
\* (same for v_b and b), on the velocity the previous call left; so after the
\* first update v_W = dLdW and W = W_old - lr*dLdW, and after the second
\* v_W = mu*dLdW + dLdW'.
C2_Momentum ==
    mu # 0 =>
        /\ nCalls = 0 =>
              \A k \in 1..NLayers :
                  /\ AllZero(v_W[k]) /\ shape(v_W[k]) = shape(model.layers[k].W)
                  /\ AllZero(v_b[k]) /\ shape(v_b[k]) = shape(model.layers[k].b)
        /\ pc \in {"forward", "loss", "backward", "panicked"} =>
              (v_W = pre.v_W /\ v_b = pre.v_b)
        /\ pc = "returned" =>
              \A k \in 1..NLayers :
                  LET l == model.layers[k]
                  IN  /\ v_W[k] = madd(scal(mu, pre.v_W[k]), l.dLdW).val
                      /\ v_b[k] = madd(scal(mu, pre.v_b[k]), l.dLdb).val
                      /\ l.W = msub(pre.W[k], scal(lr, v_W[k])).val
                      /\ l.b = msub(pre.b[k], scal(lr, v_b[k])).val
                      /\ Len(gradHist) = 1 =>
                            /\ v_W[k] = l.dLdW
                            /\ v_b[k] = l.dLdb
                            /\ l.W = msub(pre.W[k], scal(lr, l.dLdW)).val
                            /\ l.b = msub(pre.b[k], scal(lr, l.dLdb)).val
                      /\ Len(gradHist) = 2 =>
                            /\ v_W[k] = madd(scal(mu, gradHist[1][k].dLdW),
                                             gradHist[2][k].dLdW).val
                            /\ v_b[k] = madd(scal(mu, gradHist[1][k].dLdb),
                                             gradHist[2][k].dLdb).val

C2_Witness ==
    /\ mu = 2 /\ lr = 2
    /\ pc = "returned"
    /\ Len(gradHist) = 2
    /\ \A k \in 1..NLayers :
          /\ ~AllZero(gradHist[1][k].dLdW)
          /\ ~AllZero(gradHist[2][k].dLdW)
          /\ gradHist[1][k].dLdW # gradHist[2][k].dLdW

\* C3: with mu == 0 one update sets each layer's W to W_old - lr*dLdW and b
\* to b_old - lr*dLdb and leaves the velocities alone: after any number of
\* updates every velocity is still the zero matrix of construction.
C3_NoMomentum ==
    mu = 0 =>
        /\ \A k \in 1..NLayers :
              /\ AllZero(v_W[k]) /\ shape(v_W[k]) = shape(model.layers[k].W)
              /\ AllZero(v_b[k]) /\ shape(v_b[k]) = shape(model.layers[k].b)
        /\ pc = "returned" =>
              \A k \in 1..NLayers :
                  LET l == model.layers[k]
                  IN  /\ l.W = msub(pre.W[k], scal(lr, l.dLdW)).val
                      /\ l.b = msub(pre.b[k], scal(lr, l.dLdb)).val

C3_Witness ==
    /\ mu = 0 /\ lr = 2
    /\ pc = "returned"
    /\ Len(gradHist) = 2
    /\ \A k \in 1..NLayers :
          /\ ~AllZero(model.layers[k].dLdW)
          /\ model.layers[k].W # pre.W[k]
          /\ model.layers[k].b # pre.b[k]

\* C7: when an update call fails, no layer's W or b has been modified by
\* that call: every layer's parameters are those of the call's entry.
C7_FailedUpdateKeepsParameters ==
    pc = "panicked" =>
        \A k \in 1..NLayers :
            /\ model.layers[k].W = pre.W[k]
            /\ model.layers[k].b = pre.b[k]

C7_Witness ==
    /\ pc = "panicked"
    /\ log = <<<<"model.forward", 0>>, <<"loss.forward", 0>>>>
    /\ Len(gradHist) = 1
    /\ \A k \in 1..NLayers : ~AllZero(model.layers[k].dLdW)
    /\ model.layers[1].X = x

IsWrite(e) == e[1] \in {"W", "b", "v_W", "v_b"}

Count(e) == Cardinality({n \in 1..Len(log) : log[n] = e})

\* C9: every update performs model.forward, loss.forward, model.backward in
\* this order, each once, and only then the parameter mutations: nothing is
\* written to a W, b or velocity before model.backward has returned, and
\* each layer's W and b are written exactly once per update.
C9_UpdateOrder ==
    /\ \A n \in 1..Len(log) :
          IsWrite(log[n]) =>
              /\ n > 3
              /\ log[1] = <<"model.forward", 0>>
              /\ log[2] = <<"loss.forward", 0>>
              /\ log[3] = <<"model.backward", 0>>
    /\ \A n \in 1..Len(log) :
          /\ log[n] = <<"model.forward", 0>> => n = 1
          /\ log[n] = <<"loss.forward", 0>> => n = 2
          /\ log[n] = <<"model.backward", 0>> => n = 3
    /\ Len(log) >= 2 => log[1] = <<"model.forward", 0>>
    /\ Len(log) >= 3 => log[2] = <<"loss.forward", 0>>
    /\ Count(<<"model.backward", 0>>) = 0 => Snapshot(model, v_W, v_b) = pre
    /\ \A e \in {log[n] : n \in 1..Len(log)} : Count(e) = 1
    /\ pc = "returned" =>
          /\ Count(<<"model.forward", 0>>) = 1
          /\ Count(<<"loss.forward", 0>>) = 1
          /\ Count(<<"model.backward", 0>>) = 1
          /\ \A k \in 1..NLayers : Count(<<"W", k>>) = 1 /\ Count(<<"b", k>>) = 1

C9_Witness ==
    /\ pc = "returned"
    /\ mu # 0
    /\ nCalls = 2
    /\ Len(log) = 3 + 4 * NLayers
    /\ \A k \in 1..NLayers :
          /\ model.layers[k].W # pre.W[k]
          /\ v_W[k] # pre.v_W[k]

====
